---------------------------- MODULE Spec2Model ----------------------------
(***************************************************************************)
(* A model of the time-series pipeline of india-api: the retrieval window  *)
(* (inputs/utils.py), the indiadb adapter with its access check            *)
(* (inputs/indiadb/client.py), forecast smoothing (inputs/indiadb/         *)
(* smooth.py) and generation resampling (service/resample.py).             *)
(*                                                                         *)
(* Instants are whole minutes since an epoch that is a midnight UTC.       *)
(* Power values are exact rationals [num, den] (den > 0, lowest terms), so *)
(* that a mean such as 1.5 and its conversion to an integer differ.        *)
(***************************************************************************)
EXTENDS Integers, Sequences, FiniteSets, TLC

VARIABLES
    now,               \* the current instant, dt.datetime.now(tz=dt.UTC)
    window,            \* the last result of get_window, or NoWindow
    values,            \* the series handed to smooth_forecast / resample_generation
    internal_minutes,  \* the bucket width handed to resample_generation
    result,            \* the series returned by the last call, or NoResult
    rows,              \* raw forecast / generation rows of the datastore
    site_group_sites,  \* site group -> the site uuids it owns
    site_capacity_kw,  \* site uuid -> the capacity_kw of the site
    generation,        \* the stored generation rows of the sites
    response,          \* the outcome of the last sites-scoped call
    frame,             \* the DataFrame df inside the last call, before it is
                       \* converted to the returned value
    forecast_horizon,  \* the forecast horizon of the last call
    api_requests,      \* the API calls save_api_call_to_db has recorded
    requests           \* the requests the server is handling, by request id

vars == <<now, window, values, internal_minutes, result, rows,
          site_group_sites, site_capacity_kw, generation, response,
          frame, forecast_horizon, api_requests, requests>>

call_vars == <<frame, forecast_horizon>>
series_vars == <<values, internal_minutes, result, call_vars>>
sites_vars == <<site_group_sites, site_capacity_kw, generation, response>>
request_vars == <<api_requests, requests>>

-----------------------------------------------------------------------------
(* Bounds of the model *)

\* instants are drawn every NowGrid minutes ...
NowGrid == 30
\* ... from the epoch up to MaxTicks grid steps later (more than two days)
MaxTicks == 100
\* the longest series handed to resample_generation
MaxLen == 3
\* the longest series handed to smooth_forecast
MaxSmoothLen == 5
\* the most readings of one post_site_generation call
MaxReadings == 2
\* the most raw rows of a site in the datastore
MaxRows == 3
\* the longest series handed to format_csv_and_created_time
MaxCsvLen == 3

-----------------------------------------------------------------------------
(* Calendar arithmetic *)

MinutesPerDay == 24 * 60
MinutesPerHour == MinutesPerDay \div 24

\* local_tz = pytz.timezone("Asia/Kolkata"): UTC+05:30 all year
local_tz == 5 * MinutesPerHour + 30

\* the UTC offset of dt.UTC
UTC == 0

\* instant.astimezone(tz): the datetime fields of an instant seen in a zone
astimezone(t, tz) ==
    [day    |-> (t + tz) \div MinutesPerDay,
     hour   |-> ((t + tz) % MinutesPerDay) \div MinutesPerHour,
     minute |-> (t + tz) % MinutesPerHour,
     tz     |-> tz]

\* the instant a zoned datetime denotes
timestamp(d) == d.day * MinutesPerDay + d.hour * MinutesPerHour + d.minute - d.tz

\* d + dt.timedelta(days=n): the wall clock fields are kept (fixed offset)
plus_days(d, n) == [d EXCEPT !.day = d.day + n]

\* d.replace(hour=0, minute=0, second=0, microsecond=0)
replace_midnight(d) == [d EXCEPT !.hour = 0, !.minute = 0]

\* get_window() of inputs/utils.py, at the current instant t, with the 09:00
\* cutoff misread as inclusive (hour <= 9): a mutant
get_window_cutoff_inclusive(t) ==
    LET now_ist == astimezone(t, local_tz)
        start == replace_midnight(plus_days(now_ist, -2))
        end == IF now_ist.hour <= 9
               THEN replace_midnight(plus_days(now_ist, 1))
               ELSE replace_midnight(plus_days(now_ist, 2))
    IN  [start |-> timestamp(astimezone(timestamp(start), UTC)),
         end   |-> timestamp(astimezone(timestamp(end), UTC))]

\* get_window() computed on the UTC wall clock, as realdb's _getWindow does,
\* instead of the Asia/Kolkata one: a mutant
get_window_utc_day(t) ==
    LET now_utc == astimezone(t, UTC)
        start == replace_midnight(plus_days(now_utc, -2))
        end == IF astimezone(t, local_tz).hour < 9
               THEN replace_midnight(plus_days(now_utc, 1))
               ELSE replace_midnight(plus_days(now_utc, 2))
    IN  [start |-> timestamp(start), end |-> timestamp(end)]

\* get_window() of inputs/utils.py, at the current instant t
get_window(t) ==
    LET now_ist == astimezone(t, local_tz)
        start == replace_midnight(plus_days(now_ist, -2))
        end == IF now_ist.hour < 9
               THEN replace_midnight(plus_days(now_ist, 1))
               ELSE replace_midnight(plus_days(now_ist, 2))
    IN  [start |-> timestamp(astimezone(timestamp(start), UTC)),
         end   |-> timestamp(astimezone(timestamp(end), UTC))]

-----------------------------------------------------------------------------
(* Values of the variables a specification does not use *)

NoWindow == [start |-> -1, end |-> -1]
NoResult == [status |-> "none", series |-> <<>>]
\* a call that returned the series s
Returned(s) == [status |-> "ok", series |-> s]
NoResponse == [op |-> "none"]

Instants == {k * NowGrid : k \in 0..MaxTicks}

WindowIdle == window = NoWindow
NoHorizon == "none"
RequestsIdle == api_requests = <<>> /\ requests = <<>>
CallIdle == frame = <<>> /\ forecast_horizon = NoHorizon /\ RequestsIdle
SeriesIdle ==
    /\ values = <<>> /\ internal_minutes = 0 /\ result = NoResult
    /\ CallIdle
RowsIdle == rows = <<>>
SitesIdle ==
    /\ site_group_sites = <<>> /\ site_capacity_kw = <<>>
    /\ generation = {} /\ response = NoResponse

-----------------------------------------------------------------------------
(* SpecWindow: get_window at every instant of the grid *)

InitWindow ==
    /\ now \in Instants
    /\ WindowIdle /\ SeriesIdle /\ RowsIdle /\ SitesIdle

CallGetWindow ==
    /\ window' = get_window(now)
    /\ UNCHANGED <<now, rows, series_vars, sites_vars, request_vars>>

NextWindow == CallGetWindow

SpecWindow == InitWindow /\ [][NextWindow]_vars

\* the instant of 00:00 Asia/Kolkata of the local day that contains t
local_midnight(t) == t - ((t + local_tz) % MinutesPerDay)

\* C5 as stated: start and end of every window are exactly 00:00:00 UTC, and
\* start < end.  The code aligns the window to the Asia/Kolkata day instead.
C5_WindowMidnightUTC ==
    window # NoWindow =>
        /\ window.start % MinutesPerDay = 0
        /\ window.end % MinutesPerDay = 0
        /\ window.start < window.end

\* C5 amended: start and end of every window are exactly 00:00:00
\* Asia/Kolkata, that is 18:30:00 UTC, and start < end.
C5_WindowMidnightLocal ==
    window # NoWindow =>
        /\ window.start % MinutesPerDay = 18 * MinutesPerHour + 30
        /\ window.end % MinutesPerDay = 18 * MinutesPerHour + 30
        /\ (window.start + local_tz) % MinutesPerDay = 0
        /\ (window.end + local_tz) % MinutesPerDay = 0
        /\ window.start < window.end

\* a window was computed at an instant that is no local midnight itself
C5_Witness ==
    /\ window # NoWindow
    /\ (now + local_tz) % MinutesPerDay # 0
    /\ window.start % MinutesPerDay = 18 * MinutesPerHour + 30

\* C6: with m the Asia/Kolkata midnight of now's local day, start = m - 2
\* days, end = m + 1 day before the 09:00 local cutoff and m + 2 days at or
\* after it; so end - start is 3 days before the cutoff and 4 days otherwise.
C6_WindowLength ==
    window # NoWindow =>
        LET m == local_midnight(now)
            before_cutoff == now - m < 9 * MinutesPerHour
        IN  /\ window.start = m - 2 * MinutesPerDay
            /\ window.end = m + (IF before_cutoff THEN 1 ELSE 2) * MinutesPerDay
            /\ window.end - window.start
                   = (IF before_cutoff THEN 3 ELSE 4) * MinutesPerDay
            /\ window.end - window.start \in {3 * MinutesPerDay, 4 * MinutesPerDay}

\* a window computed exactly at the cutoff, 09:00 Asia/Kolkata: 4 days long
C6_Witness ==
    /\ window # NoWindow
    /\ now - local_midnight(now) = 9 * MinutesPerHour
    /\ window.end - window.start = 4 * MinutesPerDay

-----------------------------------------------------------------------------
(* Power values: Python floats, kept exact as rationals *)

abs(x) == IF x < 0 THEN -x ELSE x

RECURSIVE gcd(_, _)
gcd(a, b) == IF b = 0 THEN a ELSE gcd(b, a % b)

\* the float n / d, d > 0, in lowest terms
Rat(n, d) == LET g == gcd(abs(n), d) IN [num |-> n \div g, den |-> d \div g]

\* float(n) of an integer n
float(n) == [num |-> n, den |-> 1]

\* int(x) of a float: truncation toward zero
int(x) == IF x.num >= 0 THEN x.num \div x.den ELSE -((-x.num) \div x.den)

\* NaN, the mean of an empty bucket
NaN == [num |-> 0, den |-> 0]

add(x, y) == Rat(x.num * y.den + y.num * x.den, x.den * y.den)
div_int(x, n) == Rat(x.num, x.den * n)
less(x, y) == x.num * y.den < y.num * x.den

RECURSIVE sum(_)
sum(xs) == IF xs = <<>> THEN float(0) ELSE add(Head(xs), sum(Tail(xs)))

\* Series.mean(): NaN over no values
mean(xs) == IF xs = <<>> THEN NaN ELSE div_int(sum(xs), Len(xs))

set_min(S) == CHOOSE x \in S : \A y \in S : x <= y
set_max(S) == CHOOSE x \in S : \A y \in S : y <= x

\* ActualPower(Time=..., PowerKW=...): PowerKW is declared float and is kept
ActualPower(time, power) == [Time |-> time, PowerKW |-> power]

\* PredictedPower(Time=..., PowerKW=..., CreatedTime=...)
PredictedPower(time, power, created) ==
    [Time |-> time, PowerKW |-> power, CreatedTime |-> created]

-----------------------------------------------------------------------------
(* resample_generation of service/resample.py *)

\* df.set_index("Time").resample(f"{internal_minutes}T").mean(): one row per
\* bin from the bin of the earliest point to the bin of the latest; bins are
\* closed on the left, labelled by their left edge and anchored at midnight
\* of the earliest point's day (origin="start_day"); an empty bin is NaN
resample_mean(vals, minutes) ==
    LET times == {vals[i].Time : i \in DOMAIN vals}
        first == set_min(times)
        last == set_max(times)
        origin == first - (first % MinutesPerDay)
        first_edge == first - ((first - origin) % minutes)
        nbins == ((last - first_edge) \div minutes) + 1
        edge(k) == first_edge + (k - 1) * minutes
        powers(k) ==
            LET in_bin(i) == edge(k) <= vals[i].Time /\ vals[i].Time < edge(k) + minutes
                idx == {i \in DOMAIN vals : in_bin(i)}
                RECURSIVE take(_)
                take(i) == IF i > Len(vals) THEN <<>>
                           ELSE IF i \in idx THEN <<vals[i].PowerKW>> \o take(i + 1)
                           ELSE take(i + 1)
            IN  take(1)
    IN  [k \in 1..nbins |-> [Time |-> edge(k), PowerKW |-> mean(powers(k))]]

\* .dropna() left out, every bin of the range is returned: a mutant
dropna_missing(df) == df

\* .dropna(): the rows whose mean is NaN are removed
dropna(df) ==
    LET has_value(r) == r.PowerKW # NaN IN SelectSeq(df, has_value)

\* df['PowerKW'].clip(lower=0, inplace=True)
clip_lower_0(df) ==
    [k \in DOMAIN df |->
        [df[k] EXCEPT !.PowerKW = IF less(df[k].PowerKW, float(0))
                                  THEN float(0) ELSE df[k].PowerKW]]

\* resample_generation(values, internal_minutes), internal_minutes > 0
resample_generation(vals, minutes) ==
    IF vals = <<>> THEN <<>>
    ELSE LET df == clip_lower_0(dropna(resample_mean(vals, minutes)))
         IN  [k \in DOMAIN df |-> ActualPower(df[k].Time, df[k].PowerKW)]

-----------------------------------------------------------------------------
(* SpecResample: resample_generation on bounded series *)

\* the series of test_resample_generation_1_period
Test1Period ==
    << ActualPower(0, float(1)), ActualPower(8, float(2)) >>

\* the series of test_resample_generation_3_periods_with_gaps
Test3PeriodsWithGaps ==
    << ActualPower(0, float(1)), ActualPower(8, float(2)),
       ActualPower(22, float(3)), ActualPower(90, float(4)),
       ActualPower(91, float(5)), ActualPower(92, float(6)) >>

\* instants of generation readings: three of one day, one of the next
SampleTimes == {0, 8, 22, MinutesPerDay + 5}
SamplePowers == {float(1), float(2)}
SamplePoints == {ActualPower(t, p) : t \in SampleTimes, p \in SamplePowers}

\* bucket widths: 15 and 60 divide the day, 7 does not
Widths == {7, 15, 60}

ResampleInputs ==
    UNION {[1..n -> SamplePoints] : n \in 0..MaxLen}
        \cup {Test1Period, Test3PeriodsWithGaps}

InitResample ==
    /\ values \in ResampleInputs
    /\ internal_minutes \in Widths
    /\ result = NoResult
    /\ now = 0
    /\ WindowIdle /\ RowsIdle /\ SitesIdle /\ CallIdle

CallResampleGeneration ==
    /\ result = NoResult
    /\ result' = Returned(resample_generation(values, internal_minutes))
    /\ UNCHANGED <<now, window, values, internal_minutes, rows, sites_vars, call_vars, request_vars>>

NextResample == CallResampleGeneration

SpecResample == InitResample /\ [][NextResample]_vars

\* the PowerKW of the input points whose Time lies in [b, b + width)
bucket_powers(vals, b, width) ==
    LET RECURSIVE take(_)
        take(i) == IF i > Len(vals) THEN <<>>
                   ELSE IF b <= vals[i].Time /\ vals[i].Time < b + width
                        THEN <<vals[i].PowerKW>> \o take(i + 1)
                        ELSE take(i + 1)
    IN  take(1)

\* C7: every output point's PowerKW is the mean of the input points of its
\* bucket [b, b + width) converted to an integer number of kW (1.5 gives 1);
\* the series (00:00, 1.0), (00:08, 2.0) at 15 minutes gives (00:00, 1).
C7_ResampleIntegerMean ==
    result.status = "ok" =>
        /\ \A i \in DOMAIN result.series :
              LET inb == bucket_powers(values, result.series[i].Time, internal_minutes)
              IN  /\ inb # <<>>
                  /\ result.series[i].PowerKW = float(int(mean(inb)))
        /\ (values = Test1Period /\ internal_minutes = 15)
              => result.series = << ActualPower(0, float(1)) >>

\* C8: the output has exactly one point per bucket that holds an input
\* point and none for an empty bucket; the output times are bucket starts,
\* multiples of the width from midnight UTC of the earliest point's day, in
\* strictly ascending order; the six points of the test at 15 minutes give
\* exactly the buckets 00:00, 00:15 and 01:30.
C8_ResampleBuckets ==
    result.status = "ok" =>
        /\ values = <<>> => result.series = <<>>
        /\ values # <<>> =>
              LET first == set_min({values[i].Time : i \in DOMAIN values})
                  origin == first - (first % MinutesPerDay)
              IN  /\ \A i \in DOMAIN result.series :
                        /\ (result.series[i].Time - origin) % internal_minutes = 0
                        /\ bucket_powers(values, result.series[i].Time, internal_minutes) # <<>>
                        /\ result.series[i].PowerKW # NaN
                  /\ \A i, j \in DOMAIN result.series :
                        i < j => result.series[i].Time < result.series[j].Time
                  /\ \A v \in DOMAIN values :
                        Cardinality({i \in DOMAIN result.series :
                            /\ result.series[i].Time <= values[v].Time
                            /\ values[v].Time < result.series[i].Time + internal_minutes}) = 1
        /\ (values = Test3PeriodsWithGaps /\ internal_minutes = 15)
              => [i \in DOMAIN result.series |-> result.series[i].Time] = <<0, 15, 90>>

\* the six points of the test were resampled at 15 minutes: the buckets
\* 00:30 .. 01:15 between the second and the third output hold no point
C8_Witness ==
    /\ values = Test3PeriodsWithGaps
    /\ internal_minutes = 15
    /\ result.status = "ok"
    /\ Len(result.series) = 3
    /\ result.series[3].Time - result.series[2].Time > internal_minutes

-----------------------------------------------------------------------------
(* smooth_forecast of inputs/indiadb/smooth.py *)

max2(a, b) == IF a >= b THEN a ELSE b
min2(a, b) == IF a <= b THEN a ELSE b

\* xs[::-1]
reversed(xs) == [i \in DOMAIN xs |-> xs[Len(xs) + 1 - i]]

\* the elements of a set of instants in ascending order
RECURSIVE sorted(_)
sorted(S) == IF S = {} THEN <<>>
             ELSE LET m == set_min(S) IN <<m>> \o sorted(S \ {m})

\* a rolling window of 3 rows instead of 4: a mutant
rolling_3_mean(df) ==
    [i \in DOMAIN df |->
        [Time |-> df[i].Time,
         PowerKW |-> mean([k \in 1..(i - max2(1, i - 2) + 1) |->
                               df[max2(1, i - 2) + k - 1].PowerKW])]]

\* df.rolling(4, min_periods=1).mean() on rows [Time, PowerKW]: row i is the
\* mean of itself and of up to 3 rows before it
rolling_4_mean(df) ==
    [i \in DOMAIN df |->
        [Time |-> df[i].Time,
         PowerKW |-> mean([k \in 1..(i - max2(1, i - 3) + 1) |->
                               df[max2(1, i - 3) + k - 1].PowerKW])]]

\* the index of left + right taken from the right operand, here the reversed
\* frame: a mutant
join_index_right(left, right) == right

\* the index of left + right: the common index when both are the same, else
\* the outer join of the two, which pandas sorts
join_index(left, right) ==
    IF left = right THEN left
    ELSE sorted({left[i] : i \in DOMAIN left} \cup {right[i] : i \in DOMAIN right})

\* the PowerKW of the row labelled t (the labels of a series are unique)
loc(df, t) == df[CHOOSE i \in DOMAIN df : df[i].Time = t].PowerKW

\* (left - right) / 2.0, the difference for the sum: a mutant
half_difference_of_frames(left, right) ==
    LET index == join_index([i \in DOMAIN left |-> left[i].Time],
                            [i \in DOMAIN right |-> right[i].Time])
        minus(x) == [num |-> 0 - x.num, den |-> x.den]
    IN  [k \in DOMAIN index |->
            [Time |-> index[k],
             PowerKW |-> div_int(add(loc(left, index[k]), minus(loc(right, index[k]))), 2)]]

\* (left + right) / 2.0 of two frames, aligned on their Time index
mean_of_frames(left, right) ==
    LET index == join_index([i \in DOMAIN left |-> left[i].Time],
                            [i \in DOMAIN right |-> right[i].Time])
    IN  [k \in DOMAIN index |->
            [Time |-> index[k],
             PowerKW |-> div_int(add(loc(left, index[k]), loc(right, index[k])), 2)]]

\* df after line 18: the frame of Time and PowerKW, smoothed both ways
smoothed_frame(vals) ==
    LET df == [i \in DOMAIN vals |-> [Time |-> vals[i].Time, PowerKW |-> vals[i].PowerKW]]
    IN  mean_of_frames(rolling_4_mean(df), rolling_4_mean(reversed(df)))

\* smooth_forecast(values), values with distinct Time
smooth_forecast(vals) ==
    LET smoothed == smoothed_frame(vals)
    IN  [k \in DOMAIN smoothed |->
            PredictedPower(smoothed[k].Time,
                           float(int(smoothed[k].PowerKW)),
                           vals[k].CreatedTime)]

-----------------------------------------------------------------------------
(* SpecSmooth: smooth_forecast on bounded forecast series *)

\* forecast values are 15 minutes apart (conftest.py)
ForecastStep == 15

\* forecast powers, whole kW as the adapter hands them on
SmoothPowers == {0, 1, 5}

\* the Time of the i-th of n points: consecutive steps, or with the last
\* point one step late (a gap before it)
SmoothTimes(n, gap) ==
    [i \in 1..n |-> (IF gap /\ i = n THEN i ELSE i - 1) * ForecastStep]

\* the CreatedTime of a point: one forecast run made before the first point,
\* or one run per point, 30 minutes ahead of it
SmoothCreated(t, one_run) == IF one_run THEN 0 - 2 * ForecastStep ELSE t - 2 * ForecastStep

\* forecast series as the datastore query returns them: Time strictly
\* ascending, one value per Time
SmoothInputs ==
    UNION { UNION { { [i \in 1..n |->
                         PredictedPower(times[i], float(ps[i]),
                                        SmoothCreated(times[i], one_run))]
                      : ps \in [1..n -> SmoothPowers], one_run \in BOOLEAN }
                    : times \in {SmoothTimes(n, gap) : gap \in BOOLEAN} }
            : n \in 1..MaxSmoothLen }

\* the forecast of the test database: 11 values 15 minutes apart, value i of
\* i kW, all of one forecast run
NumValuesPerForecast == 11
FixtureForecast ==
    [i \in 1..NumValuesPerForecast |->
        PredictedPower((i - 1) * ForecastStep, float(i - 1), 0 - 2 * ForecastStep)]

\* the same forecast with a dip to 0 kW at its 4th and 8th value
FixtureForecastWithDips ==
    [i \in 1..NumValuesPerForecast |->
        PredictedPower((i - 1) * ForecastStep,
                       IF i \in {4, 8} THEN float(0) ELSE float(i - 1),
                       0 - 2 * ForecastStep)]

\* powers of the ramps
RampPowers == 0..6

\* strictly increasing and strictly decreasing ramps: every choice of n
\* powers, in ascending or in descending order along the Time
RampInputs ==
    UNION { UNION { { [i \in 1..n |->
                         PredictedPower((i - 1) * ForecastStep,
                                        float(IF up THEN sorted(P)[i]
                                              ELSE sorted(P)[n + 1 - i]),
                                        0 - 2 * ForecastStep)]
                      : up \in BOOLEAN }
                    : P \in {X \in SUBSET RampPowers : Cardinality(X) = n} }
            : n \in 2..MaxSmoothLen }

InitSmooth ==
    /\ values \in SmoothInputs \cup RampInputs
                   \cup {FixtureForecast, FixtureForecastWithDips}
    /\ internal_minutes = 0
    /\ result = NoResult
    /\ now = 0
    /\ WindowIdle /\ RowsIdle /\ SitesIdle /\ CallIdle

CallSmoothForecast ==
    /\ result = NoResult
    /\ frame' = smoothed_frame(values)
    /\ result' = Returned(smooth_forecast(values))
    /\ UNCHANGED <<now, window, values, internal_minutes, rows, sites_vars,
                   forecast_horizon, request_vars>>

NextSmooth == CallSmoothForecast

SpecSmooth == InitSmooth /\ [][NextSmooth]_vars

window_mean(vals, lo, hi) ==
    mean([k \in 1..(hi - lo + 1) |-> vals[lo + k - 1].PowerKW])

\* C11: for every point i the value computed before the integer conversion
\* is the average of the mean of point i with up to 3 points before it and
\* the mean of point i with up to 3 points after it, the windows shrinking
\* to the points that exist at the ends of the series.
C11_SmoothTwoSidedMean ==
    result.status = "ok" =>
        /\ Len(frame) = Len(values)
        /\ \A i \in DOMAIN values :
              /\ frame[i].Time = values[i].Time
              /\ frame[i].PowerKW =
                     div_int(add(window_mean(values, max2(1, i - 3), i),
                                 window_mean(values, i, min2(Len(values), i + 3))), 2)

\* a series long enough for a point with three points on either side, with
\* a value the smoothing changes at that point and at the first point
C11_Witness ==
    /\ result.status = "ok"
    /\ Len(values) >= 7
    /\ frame[4].PowerKW # values[4].PowerKW
    /\ frame[1].PowerKW # values[1].PowerKW

\* C12: every PowerKW of the output is the integer nearest to the smoothed
\* value, at most 1/2 away from it (2.75 gives 3).
C12_SmoothNearestInteger ==
    result.status = "ok" =>
        \A k \in DOMAIN result.series :
            2 * abs(result.series[k].PowerKW.num * frame[k].PowerKW.den
                      - frame[k].PowerKW.num) <= frame[k].PowerKW.den

StrictlyIncreasing(vals) ==
    \A i \in 1..(Len(vals) - 1) : less(vals[i].PowerKW, vals[i + 1].PowerKW)
StrictlyDecreasing(vals) ==
    \A i \in 1..(Len(vals) - 1) : less(vals[i + 1].PowerKW, vals[i].PowerKW)

\* C13: the output of a strictly increasing ramp never decreases along the
\* Time, and the output of a strictly decreasing ramp never increases.
C13_SmoothKeepsRampMonotonic ==
    result.status = "ok" =>
        /\ StrictlyIncreasing(values)
              => \A i \in 1..(Len(result.series) - 1) :
                    ~less(result.series[i + 1].PowerKW, result.series[i].PowerKW)
        /\ StrictlyDecreasing(values)
              => \A i \in 1..(Len(result.series) - 1) :
                    ~less(result.series[i].PowerKW, result.series[i + 1].PowerKW)

\* a strictly decreasing ramp longer than the rolling window was smoothed,
\* its values changed and two neighbours of the output became equal
C13_Witness ==
    /\ result.status = "ok"
    /\ Len(values) > 4
    /\ StrictlyDecreasing(values)
    /\ \E i \in DOMAIN values : result.series[i].PowerKW # values[i].PowerKW
    /\ \E i \in 1..(Len(values) - 1) :
          result.series[i].PowerKW = result.series[i + 1].PowerKW

-----------------------------------------------------------------------------
(* SpecSmoothAnyOrder: smooth_forecast on series in any order of Time *)

\* the Time of the points: as many 15-minute steps as the longest series
AnyOrderTimes == {(i - 1) * ForecastStep : i \in 1..MaxLen}
AnyOrderPowers == {0, 5}

\* series of distinct Time in every order, each point of its own forecast
\* run (CreatedTime 30 minutes ahead of Time) or all of one run
AnyOrderInputs ==
    UNION { { [i \in 1..n |->
                 PredictedPower(ts[i], float(ps[i]), SmoothCreated(ts[i], one_run))]
              : ts \in {f \in [1..n -> AnyOrderTimes] :
                           \A i, j \in 1..n : i # j => f[i] # f[j]},
                ps \in [1..n -> AnyOrderPowers], one_run \in BOOLEAN }
            : n \in 1..MaxLen }

InitSmoothAnyOrder ==
    /\ values \in AnyOrderInputs
    /\ internal_minutes = 0
    /\ result = NoResult
    /\ now = 0
    /\ WindowIdle /\ RowsIdle /\ SitesIdle /\ CallIdle

NextSmoothAnyOrder == CallSmoothForecast

SpecSmoothAnyOrder == InitSmoothAnyOrder /\ [][NextSmoothAnyOrder]_vars

\* C14: whatever the order of the input, every output point carries the
\* CreatedTime of the input point that has the same Time.
C14_SmoothKeepsCreatedTime ==
    result.status = "ok" =>
        \A k \in DOMAIN result.series :
            \E i \in DOMAIN values :
                /\ values[i].Time = result.series[k].Time
                /\ values[i].CreatedTime = result.series[k].CreatedTime

-----------------------------------------------------------------------------
(* The sites-scoped operations of the indiadb adapter, inputs/indiadb/client.py *)

\* the users of the test database and the site group of each
Emails == {"test@test.com", "test2@test.com"}
SiteGroups == {"group_test", "group_test2"}
user_site_group == [e \in Emails |->
                       IF e = "test@test.com" THEN "group_test" ELSE "group_test2"]

SiteUuids == {"site_1", "site_2"}
\* the site whose site groups change while the service runs
MovedSiteUuids == {"site_1"}

\* capacity_kw of the sites of the test database
TestCapacityKW == 4
\* capacity_kw of a site after the update of the put_site_info example
PutCapacityKW == 5
\* SiteProperties.capacity_kw when the update does not set it
NoCapacityKW == -1

\* get_user_by_email(session, email)
get_user_by_email(email) == [email |-> email, site_group |-> user_site_group[email]]

\* the sites of the group as they were when the server started, whatever
\* the site groups hold now: a mutant
check_user_has_access_to_site_cached(groups, email, site_uuid) ==
    LET site_uuids == IF get_user_by_email(email).site_group = "group_test"
                      THEN SiteUuids ELSE {}
    IN  IF site_uuid \notin site_uuids
        THEN [status_code |-> 403, site_uuids |-> site_uuids]
        ELSE [status_code |-> 200, site_uuids |-> site_uuids]

\* any site of the database passes, whoever owns it: a mutant
check_user_has_access_to_site_any_group(groups, email, site_uuid) ==
    LET site_uuids == groups[get_user_by_email(email).site_group]
    IN  IF site_uuid \notin UNION {groups[g] : g \in DOMAIN groups}
        THEN [status_code |-> 403, site_uuids |-> site_uuids]
        ELSE [status_code |-> 200, site_uuids |-> site_uuids]

\* check_user_has_access_to_site(session, email, site_uuid): HTTP 403 unless
\* the site is one of user.site_group.sites
check_user_has_access_to_site(groups, email, site_uuid) ==
    LET site_uuids == groups[get_user_by_email(email).site_group]
    IN  IF site_uuid \notin site_uuids
        THEN [status_code |-> 403, site_uuids |-> site_uuids]
        ELSE [status_code |-> 200, site_uuids |-> site_uuids]

\* what a call leaves behind: its outcome, with the datastore calls it made
\* in order, and the datastore after it
Outcome(op, email, site_uuid, posted, capacity, status_code, events, gen, caps) ==
    [response |-> [op |-> op, email |-> email, site_uuid |-> site_uuid,
                   generation |-> posted, capacity_kw |-> capacity,
                   status_code |-> status_code, events |-> events],
     generation |-> gen,
     site_capacity_kw |-> caps]

\* get_site_forecast with the forecast values read before the access check:
\* a mutant
get_site_forecast_read_first(groups, gen, caps, site_uuid, email) ==
    LET access == check_user_has_access_to_site(groups, email, site_uuid)
    IN  Outcome("get_site_forecast", email, site_uuid, <<>>, NoCapacityKW,
                access.status_code,
                <<"get_latest_forecast_values_by_site",
                  "check_user_has_access_to_site">>, gen, caps)

\* Client.get_site_forecast(site_uuid, email)
get_site_forecast(groups, gen, caps, site_uuid, email) ==
    LET access == check_user_has_access_to_site(groups, email, site_uuid)
    IN  IF access.status_code = 403
        THEN Outcome("get_site_forecast", email, site_uuid, <<>>, NoCapacityKW,
                     403, <<"check_user_has_access_to_site">>, gen, caps)
        ELSE Outcome("get_site_forecast", email, site_uuid, <<>>, NoCapacityKW,
                     200, <<"check_user_has_access_to_site",
                            "get_latest_forecast_values_by_site">>, gen, caps)

\* Client.get_site_generation(site_uuid, email)
get_site_generation(groups, gen, caps, site_uuid, email) ==
    LET access == check_user_has_access_to_site(groups, email, site_uuid)
    IN  IF access.status_code = 403
        THEN Outcome("get_site_generation", email, site_uuid, <<>>, NoCapacityKW,
                     403, <<"check_user_has_access_to_site">>, gen, caps)
        ELSE Outcome("get_site_generation", email, site_uuid, <<>>, NoCapacityKW,
                     200, <<"check_user_has_access_to_site",
                            "get_pv_generation_by_sites">>, gen, caps)

\* insert_generation_values(session, generation_values_df); session.commit()
insert_generation_values(gen, site_uuid, posted) ==
    gen \cup {[site_uuid |-> site_uuid,
               start_utc |-> posted[i].Time,
               power_kw  |-> posted[i].PowerKW] : i \in DOMAIN posted}

\* Client.post_site_generation(site_uuid, generation, email): after the
\* access check every reading is inserted; no reading is compared with the
\* capacity_kw of the site
post_site_generation(groups, gen, caps, site_uuid, posted, email) ==
    LET access == check_user_has_access_to_site(groups, email, site_uuid)
    IN  IF access.status_code = 403
        THEN Outcome("post_site_generation", email, site_uuid, posted, NoCapacityKW,
                     403, <<"check_user_has_access_to_site">>, gen, caps)
        ELSE Outcome("post_site_generation", email, site_uuid, posted, NoCapacityKW,
                     200, <<"check_user_has_access_to_site",
                            "insert_generation_values">>,
                     insert_generation_values(gen, site_uuid, posted), caps)

\* put_site(site_uuid, site_properties, email) of the database interface:
\* the access check, then the update of the site's properties
put_site(groups, gen, caps, site_uuid, capacity, email) ==
    LET access == check_user_has_access_to_site(groups, email, site_uuid)
    IN  IF access.status_code = 403
        THEN Outcome("put_site", email, site_uuid, <<>>, capacity,
                     403, <<"check_user_has_access_to_site">>, gen, caps)
        ELSE Outcome("put_site", email, site_uuid, <<>>, capacity,
                     200, <<"check_user_has_access_to_site", "edit_site">>,
                     gen, [caps EXCEPT ![site_uuid] = capacity])

-----------------------------------------------------------------------------
(* Spec: the sites routes of service/sites.py against the indiadb adapter, *)
(* while the datastore's site groups change                                *)

\* readings a user posts: Time = 1 as in the tests; 1 kW is below every
\* capacity, 5 kW is above the capacity 4 and equal to the capacity 5
PostTimes == {1}
PostPowers == {float(1), float(5)}
PostReadings == {ActualPower(t, p) : t \in PostTimes, p \in PostPowers}
PostedGeneration == UNION {[1..n -> PostReadings] : n \in 1..MaxReadings}

\* the test database: test@test.com's group owns both sites, test2's none
Init ==
    /\ site_group_sites = [g \in SiteGroups |->
                              IF g = "group_test" THEN SiteUuids ELSE {}]
    /\ site_capacity_kw = [s \in SiteUuids |-> TestCapacityKW]
    /\ generation = {}
    /\ response = NoResponse
    /\ now = 0
    /\ WindowIdle /\ SeriesIdle /\ RowsIdle

\* GET /sites/{site_uuid}/forecast
GetForecast ==
    \E email \in Emails, site_uuid \in SiteUuids :
        LET outcome == get_site_forecast(site_group_sites, generation, site_capacity_kw,
                                site_uuid, email)
        IN  /\ response' = outcome.response
            /\ generation' = outcome.generation
            /\ site_capacity_kw' = outcome.site_capacity_kw
            /\ UNCHANGED <<now, window, rows, series_vars, site_group_sites, request_vars>>

\* GET /sites/{site_uuid}/generation
GetGeneration ==
    \E email \in Emails, site_uuid \in SiteUuids :
        LET outcome == get_site_generation(site_group_sites, generation, site_capacity_kw,
                                  site_uuid, email)
        IN  /\ response' = outcome.response
            /\ generation' = outcome.generation
            /\ site_capacity_kw' = outcome.site_capacity_kw
            /\ UNCHANGED <<now, window, rows, series_vars, site_group_sites, request_vars>>

\* POST /sites/{site_uuid}/generation
PostGeneration ==
    \E email \in Emails, site_uuid \in SiteUuids, posted \in PostedGeneration :
        LET outcome == post_site_generation(site_group_sites, generation, site_capacity_kw,
                                   site_uuid, posted, email)
        IN  /\ response' = outcome.response
            /\ generation' = outcome.generation
            /\ site_capacity_kw' = outcome.site_capacity_kw
            /\ UNCHANGED <<now, window, rows, series_vars, site_group_sites, request_vars>>

\* PUT /sites/{site_uuid}
PutSiteInfo ==
    \E email \in Emails, site_uuid \in SiteUuids,
       capacity \in {TestCapacityKW, PutCapacityKW} :
        LET outcome == put_site(site_group_sites, generation, site_capacity_kw,
                       site_uuid, capacity, email)
        IN  /\ response' = outcome.response
            /\ generation' = outcome.generation
            /\ site_capacity_kw' = outcome.site_capacity_kw
            /\ UNCHANGED <<now, window, rows, series_vars, site_group_sites, request_vars>>

\* the datastore adds a site to a site group
AddSiteToGroup ==
    \E g \in SiteGroups, s \in MovedSiteUuids :
        /\ s \notin site_group_sites[g]
        /\ site_group_sites' = [site_group_sites EXCEPT ![g] = @ \cup {s}]
        /\ UNCHANGED <<now, window, rows, series_vars,
                       site_capacity_kw, generation, response, request_vars>>

\* the datastore removes a site from a site group
RemoveSiteFromGroup ==
    \E g \in SiteGroups, s \in MovedSiteUuids :
        /\ s \in site_group_sites[g]
        /\ site_group_sites' = [site_group_sites EXCEPT ![g] = @ \ {s}]
        /\ UNCHANGED <<now, window, rows, series_vars,
                       site_capacity_kw, generation, response, request_vars>>

Next ==
    \/ GetForecast
    \/ GetGeneration
    \/ PostGeneration
    \/ PutSiteInfo
    \/ AddSiteToGroup
    \/ RemoveSiteFromGroup

Spec == Init /\ [][Next]_vars

\* a step that handles a sites-scoped call: every step but a change of the
\* site groups
SitesCall == site_group_sites' = site_group_sites /\ response'.op # "none"

\* the user of the call owns, through the site group, the site of the call
Owned(r) == r.site_uuid \in site_group_sites[user_site_group[r.email]]

DataCalls == {"get_latest_forecast_values_by_site", "get_pv_generation_by_sites",
              "insert_generation_values", "edit_site"}

\* C1: get_site_forecast, get_site_generation and post_site_generation pass
\* the access check if and only if the site is one of the sites of the site
\* group of the calling user, and are rejected with HTTP 403 otherwise.
C1_AccessIffOwned ==
    [][ (SitesCall /\ response'.op \in {"get_site_forecast", "get_site_generation",
                                        "post_site_generation"})
          => /\ Owned(response') <=> response'.status_code # 403
             /\ ~Owned(response') <=> response'.status_code = 403 ]_vars

\* test2@test.com was refused a site that test@test.com's group owns
C1_Witness ==
    /\ response.op = "get_site_forecast"
    /\ response.email = "test2@test.com"
    /\ response.status_code = 403
    /\ response.site_uuid \in site_group_sites["group_test"]
    /\ response.site_uuid \notin site_group_sites["group_test2"]

\* C2: in every sites-scoped call the access check comes before any read or
\* write of the site's data, and a call whose check fails reads and writes
\* nothing.
C2_CheckBeforeData ==
    [][ SitesCall
          => /\ response'.events # <<>>
             /\ response'.events[1] = "check_user_has_access_to_site"
             /\ \A i \in DOMAIN response'.events :
                   response'.events[i] \in DataCalls => i > 1
             /\ ~Owned(response')
                   => /\ response'.events = <<"check_user_has_access_to_site">>
                      /\ generation' = generation
                      /\ site_capacity_kw' = site_capacity_kw ]_vars

\* a refused post: nothing but the check happened, nothing is stored
C2_Witness ==
    /\ response.op = "post_site_generation"
    /\ response.status_code = 403
    /\ response.events = <<"check_user_has_access_to_site">>
    /\ generation = {}

\* a reading of the call above the capacity_kw of the call's site
ExceedsCapacity(r, caps) ==
    \E i \in DOMAIN r.generation :
        less(float(caps[r.site_uuid]), r.generation[i].PowerKW)

\* C3: a post for a site the caller may access fails with HTTP 422 whenever
\* a reading has PowerKW above the site's capacity_kw, and succeeds when
\* every PowerKW is at most capacity_kw.
C3_CapacityExceededRejected ==
    [][ (SitesCall /\ response'.op = "post_site_generation" /\ Owned(response'))
          => /\ ExceedsCapacity(response', site_capacity_kw)
                   => response'.status_code = 422
             /\ ~ExceedsCapacity(response', site_capacity_kw)
                   => response'.status_code = 200 ]_vars

\* C4: when a reading of a post exceeds the site's capacity_kw, no reading
\* of the post is inserted: the stored generation is unchanged by the call.
C4_NoWriteWhenCapacityExceeded ==
    [][ (SitesCall /\ response'.op = "post_site_generation"
           /\ ExceedsCapacity(response', site_capacity_kw))
          => generation' = generation ]_vars

-----------------------------------------------------------------------------
(* The read operations of the indiadb adapter and the generation route *)

\* int(value.forecast_power_kw) with no test of the sign: a mutant
power_kw_unclamped(v) == float(int(v))

\* PowerKW = int(v) if v >= 0 else 0, stored in the float field PowerKW
power_kw(v) == IF ~less(v, float(0)) THEN float(int(v)) ELSE float(0)

\* every forecast row, whatever its start_utc: a mutant
get_latest_forecast_values_by_site_unbounded(db_rows, start) == db_rows

\* get_latest_forecast_values_by_site(session, site_uuids, start_utc=start):
\* the forecast rows from start on, in the order of start_utc
get_latest_forecast_values_by_site(db_rows, start) ==
    LET from_start(r) == r.start_utc >= start IN SelectSeq(db_rows, from_start)

\* the generation rows from start on, with no bound at the end: a mutant
get_pv_generation_by_sites_from_start(db_rows, start, end) ==
    LET from_start(r) == r.start_utc >= start IN SelectSeq(db_rows, from_start)

\* get_pv_generation_by_sites(session, site_uuids, start_utc=start,
\* end_utc=end): the generation rows of [start, end), in the order of start_utc
get_pv_generation_by_sites(db_rows, start, end) ==
    LET inside(r) == r.start_utc >= start /\ r.start_utc < end
    IN  SelectSeq(db_rows, inside)

\* the conversion of ForecastValueSQL rows to PredictedPower
to_predicted_power(forecast_values) ==
    [i \in DOMAIN forecast_values |->
        PredictedPower(forecast_values[i].start_utc,
                       power_kw(forecast_values[i].power_kw),
                       forecast_values[i].created_utc)]

\* the conversion of GenerationSQL rows to ActualPower
to_actual_power(generation_values) ==
    [i \in DOMAIN generation_values |->
        ActualPower(generation_values[i].start_utc,
                    power_kw(generation_values[i].power_kw))]

\* Client.get_predicted_power_production_for_location with the latest
\* horizon, at the instant t
get_predicted_power_production_for_location(db_rows, t, smooth_flag) ==
    LET w == get_window(t)
        vals == to_predicted_power(get_latest_forecast_values_by_site(db_rows, w.start))
    IN  IF smooth_flag THEN smooth_forecast(vals) ELSE vals

\* Client.get_generation_for_location, at the instant t
get_generation_for_location(db_rows, t) ==
    LET w == get_window(t)
    IN  to_actual_power(get_pv_generation_by_sites(db_rows, w.start, w.end))

\* Client.get_site_forecast once access is granted, at the instant t
site_forecast_values(db_rows, t) ==
    LET w == get_window(t)
    IN  to_predicted_power(get_latest_forecast_values_by_site(db_rows, w.start))

\* Client.get_site_generation once access is granted, at the instant t
site_generation_values(db_rows, t) ==
    LET w == get_window(t)
    IN  to_actual_power(get_pv_generation_by_sites(db_rows, w.start, w.end))

\* y.to_timezone(tz=local_tz): the same instant on the Asia/Kolkata clock
to_timezone(y, tz) == [y EXCEPT !.Time = astimezone(y.Time, tz)]

\* resample_minutes of the generation route when the caller gives none
NoResample == 0

\* every point, whatever its Time: a mutant
get_historic_timeseries_route_unfiltered(db_rows, t, resample_minutes) ==
    LET vals == get_generation_for_location(db_rows, t)
        resampled == IF resample_minutes # NoResample
                     THEN resample_generation(vals, resample_minutes)
                     ELSE vals
    IN  [i \in DOMAIN resampled |-> to_timezone(resampled[i], local_tz)]

\* get_historic_timeseries_route(source, region, resample_minutes), at the
\* instant t
get_historic_timeseries_route(db_rows, t, resample_minutes) ==
    LET vals == get_generation_for_location(db_rows, t)
        resampled == IF resample_minutes # NoResample
                     THEN resample_generation(vals, resample_minutes)
                     ELSE vals
        past(y) == y.Time < t
        kept == SelectSeq(resampled, past)
    IN  [i \in DOMAIN kept |-> to_timezone(kept[i], local_tz)]

-----------------------------------------------------------------------------
(* SpecPipeline: raw rows of the datastore through the adapter reads,      *)
(* smoothing and resampling                                                *)

\* two instants of the local day 3: 07:30 Asia/Kolkata, before the cutoff,
\* and 17:30 Asia/Kolkata, after it
PipelineNows == {3 * MinutesPerDay + 2 * MinutesPerHour,
                 3 * MinutesPerDay + 12 * MinutesPerHour}

\* start_utc of the rows: just before and at the window start, shortly
\* before and after the earlier instant, and at the end of the shorter window
RowTimes == {1 * MinutesPerDay - local_tz - ForecastStep,
             1 * MinutesPerDay - local_tz,
             3 * MinutesPerDay + MinutesPerHour,
             3 * MinutesPerDay + MinutesPerHour + 10,
             4 * MinutesPerDay - local_tz}

\* raw power of a row: -2.5, 1.5 and 4 kW
RawPowers == {Rat(-5, 2), Rat(3, 2), float(4)}

\* the rows of one site as the queries return them: start_utc ascending, one
\* row per start_utc
RawRows ==
    UNION { { [i \in 1..Cardinality(T) |->
                 [start_utc |-> sorted(T)[i], power_kw |-> ps[i],
                  created_utc |-> sorted(T)[i] - 2 * ForecastStep]]
              : ps \in [1..Cardinality(T) -> RawPowers] }
            : T \in {X \in SUBSET RowTimes : Cardinality(X) <= MaxRows} }

InitPipeline ==
    /\ rows \in RawRows
    /\ now \in PipelineNows
    /\ values = <<>> /\ internal_minutes = 0 /\ result = NoResult
    /\ WindowIdle /\ SitesIdle /\ CallIdle

\* db.get_predicted_*_power_production_for_location(location, smooth_flag)
ReadForecast ==
    \E smooth_flag \in BOOLEAN :
        /\ result = NoResult
        /\ result' = Returned(get_predicted_power_production_for_location(
                                  rows, now, smooth_flag))
        /\ UNCHANGED <<now, window, values, internal_minutes, rows, sites_vars, call_vars, request_vars>>

\* db.get_actual_*_power_production_for_location(location)
ReadGeneration ==
    /\ result = NoResult
    /\ result' = Returned(get_generation_for_location(rows, now))
    /\ UNCHANGED <<now, window, values, internal_minutes, rows, sites_vars, call_vars, request_vars>>

\* db.get_site_forecast(site_uuid, email), access granted
ReadSiteForecast ==
    /\ result = NoResult
    /\ result' = Returned(site_forecast_values(rows, now))
    /\ UNCHANGED <<now, window, values, internal_minutes, rows, sites_vars, call_vars, request_vars>>

\* db.get_site_generation(site_uuid, email), access granted
ReadSiteGeneration ==
    /\ result = NoResult
    /\ result' = Returned(site_generation_values(rows, now))
    /\ UNCHANGED <<now, window, values, internal_minutes, rows, sites_vars, call_vars, request_vars>>

\* GET /{source}/{region}/generation?resample_minutes=...
GetHistoricTimeseries ==
    \E resample_minutes \in Widths \cup {NoResample} :
        /\ result = NoResult
        /\ internal_minutes' = resample_minutes
        /\ result' = Returned(get_historic_timeseries_route(rows, now, resample_minutes))
        /\ UNCHANGED <<now, window, values, rows, sites_vars, call_vars, request_vars>>

NextPipeline ==
    \/ ReadForecast
    \/ ReadGeneration
    \/ ReadSiteForecast
    \/ ReadSiteGeneration
    \/ GetHistoricTimeseries

SpecPipeline == InitPipeline /\ [][NextPipeline]_vars

\* C9: whatever the raw rows, negative ones included, every PowerKW that an
\* adapter read, smooth_forecast or resample_generation returns is >= 0.
C9_NoNegativePower ==
    result.status = "ok" =>
        \A i \in DOMAIN result.series : ~less(result.series[i].PowerKW, float(0))

\* a negative raw row inside the window was read and returned as 0
C9_Witness ==
    /\ result.status = "ok"
    /\ \E i \in DOMAIN rows, k \in DOMAIN result.series :
          /\ "CreatedTime" \in DOMAIN result.series[k]
          /\ less(rows[i].power_kw, float(0))
          /\ rows[i].start_utc >= get_window(now).start
          /\ rows[i].start_utc = result.series[k].Time
          /\ result.series[k].PowerKW = float(0)

-----------------------------------------------------------------------------
(* format_csv_and_created_time of service/csv.py *)

\* a str is the sequence of its characters
Digits == <<"0", "1", "2", "3", "4", "5", "6", "7", "8", "9">>
two_digits(n) == <<Digits[(n \div 10) + 1], Digits[(n % 10) + 1]>>

\* d.strftime("%H:%M")
strftime_HM(d) == two_digits(d.hour) \o <<":">> \o two_digits(d.minute)

\* d.date(): the calendar day of the wall clock of d
date(d) == d.day

\* d + pd.to_timedelta(minutes): the zone of d is kept
plus_minutes(d, minutes) == astimezone(timestamp(d) + minutes, d.tz)

\* pd.NaT, the max() of no CreatedTime, and the pd.Timestamp of an instant
NaT == [isnat |-> TRUE, value |-> 0]
Timestamp(t) == [isnat |-> FALSE, value |-> t]

\* Series.max() of a column of datetimes
max_datetime(column) ==
    IF column = <<>> THEN NaT
    ELSE Timestamp(set_max({timestamp(column[i]) : i \in DOMAIN column}))

\* lines 21-30: one row per value, its Time on the Asia/Kolkata clock, with
\* the date, start and end columns
csv_row(y) ==
    LET time == astimezone(timestamp(y.Time), local_tz)
    IN  ("PowerKW" :> y.PowerKW) @@ ("Time" :> time) @@ ("CreatedTime" :> y.CreatedTime)
        @@ ("Date [IST]" :> date(time))
        @@ ("Start Time [IST]" :> strftime_HM(time))
        @@ ("End Time [IST]" :> strftime_HM(plus_minutes(time, ForecastStep)))

\* a filter that also drops the first row it is given: a mutant
horizon_filter_drops_first(df, horizon, t) ==
    LET now_ist == astimezone(t, local_tz)
        keep(r) == IF horizon = "day_ahead"
                   THEN r["Date [IST]"] = date(plus_days(now_ist, 1))
                   ELSE IF horizon = "latest"
                        THEN timestamp(r["Time"]) >= timestamp(now_ist)
                        ELSE TRUE
    IN  IF df = <<>> THEN <<>> ELSE SelectSeq(Tail(df), keep)

\* latest keeps the rows strictly after now: a mutant
horizon_filter_after_now(df, horizon, t) ==
    LET now_ist == astimezone(t, local_tz)
        keep(r) == IF horizon = "day_ahead"
                   THEN r["Date [IST]"] = date(plus_days(now_ist, 1))
                   ELSE IF horizon = "latest"
                        THEN timestamp(r["Time"]) > timestamp(now_ist)
                        ELSE TRUE
    IN  SelectSeq(df, keep)

\* lines 32-39: the rows of tomorrow's Asia/Kolkata date for day_ahead, the
\* rows from now on for latest, every row for any other horizon
horizon_filter(df, horizon, t) ==
    LET now_ist == astimezone(t, local_tz)
        keep(r) == IF horizon = "day_ahead"
                   THEN r["Date [IST]"] = date(plus_days(now_ist, 1))
                   ELSE IF horizon = "latest"
                        THEN timestamp(r["Time"]) >= timestamp(now_ist)
                        ELSE TRUE
    IN  SelectSeq(df, keep)

\* df after line 39, for a list of values that is not empty
csv_frame(vals, horizon, t) ==
    horizon_filter([i \in DOMAIN vals |-> csv_row(vals[i])], horizon, t)

\* the max over the CreatedTime of every value, kept or not: a mutant
created_time_of_all(vals, df) ==
    max_datetime([i \in DOMAIN vals |-> vals[i].CreatedTime])

\* line 45: df["CreatedTime"].max()
created_time_of(vals, df) ==
    max_datetime([k \in DOMAIN df |-> df[k]["CreatedTime"]])

ReportColumns == <<"Date [IST]", "Time", "PowerMW">>

\* PowerMW in place of the "HH:MM - HH:MM" Time, PowerKW unscaled: a mutant
report_row_in_kw(r) ==
    ("Date [IST]" :> r["Date [IST]"])
    @@ ("Time" :> r["Start Time [IST]"] \o <<" ", "-", " ">> \o r["End Time [IST]"])
    @@ ("PowerMW" :> r["PowerKW"])

\* lines 42-52: the Time string, PowerMW, and the three columns kept
report_row(r) ==
    ("Date [IST]" :> r["Date [IST]"])
    @@ ("Time" :> r["Start Time [IST]"] \o <<" ", "-", " ">> \o r["End Time [IST]"])
    @@ ("PowerMW" :> Rat(r["PowerKW"].num, r["PowerKW"].den * 1000))

\* the (df, created_time) a call returned, and the exception a call raised
ReturnedReport(df, created_time) ==
    [status |-> "ok", series |-> df, columns |-> ReportColumns,
     created_time |-> created_time]
Raised(exception) == [status |-> "error", series |-> <<>>, exception |-> exception]

\* format_csv_and_created_time(values, forecast_horizon) at the instant t:
\* pd.DataFrame([]) has no column, so df["Time"] raises on an empty list
format_csv_and_created_time(vals, horizon, t) ==
    IF vals = <<>> THEN Raised("KeyError")
    ELSE LET df == csv_frame(vals, horizon, t)
         IN  ReturnedReport([k \in DOMAIN df |-> report_row(df[k])],
                            created_time_of(vals, df))

-----------------------------------------------------------------------------
(* SpecCsv: format_csv_and_created_time on bounded forecast series *)

\* dt.datetime(day, hour, minute) on the Asia/Kolkata clock
local_datetime(day, hour, minute) ==
    [day |-> day, hour |-> hour, minute |-> minute, tz |-> local_tz]

\* the instants of the calls: 02:00 and 10:00 Asia/Kolkata of the local day 3
\* (at 02:00 the UTC date is still that of day 2)
CsvNows == {timestamp(local_datetime(3, 2, 0)), timestamp(local_datetime(3, 10, 0))}

\* the Time of the values: before the earlier call, at either call, the
\* first and the last quarter of an hour of the next local day, and the
\* first quarter of an hour of the day after
CsvTimes == {timestamp(local_datetime(3, 1, 45)),
             timestamp(local_datetime(3, 2, 0)),
             timestamp(local_datetime(3, 10, 0)),
             timestamp(local_datetime(4, 0, 0)),
             timestamp(local_datetime(4, 23, 50)),
             timestamp(local_datetime(5, 0, 0))}

\* the zone the datetimes of the values come in: UTC from the adapter,
\* Asia/Kolkata from the forecast route
CsvZones == {UTC, local_tz}

\* a value of its own forecast run, 250 kW created 30 minutes ahead of its
\* Time, or of the run of 01:00 Asia/Kolkata of day 3, 1500 kW
CsvValue(t, own_run, tz) ==
    IF own_run
    THEN PredictedPower(astimezone(t, tz), float(250),
                        astimezone(t - 2 * ForecastStep, tz))
    ELSE PredictedPower(astimezone(t, tz), float(1500),
                        astimezone(timestamp(local_datetime(3, 1, 0)), tz))

\* series in ascending Time, one value per Time, the empty series included
CsvInputs ==
    UNION { { [i \in 1..Cardinality(T) |-> CsvValue(sorted(T)[i], own[i], tz)]
              : own \in [1..Cardinality(T) -> BOOLEAN], tz \in CsvZones }
            : T \in {X \in SUBSET CsvTimes : Cardinality(X) <= MaxCsvLen} }

ForecastHorizon == {"latest", "horizon", "day_ahead"}

InitCsv ==
    /\ values \in CsvInputs
    /\ forecast_horizon \in ForecastHorizon
    /\ now \in CsvNows
    /\ frame = <<>>
    /\ internal_minutes = 0
    /\ result = NoResult
    /\ WindowIdle /\ RowsIdle /\ SitesIdle /\ RequestsIdle

CallFormatCsv ==
    /\ result = NoResult
    /\ frame' = IF values = <<>> THEN <<>>
                ELSE csv_frame(values, forecast_horizon, now)
    /\ result' = format_csv_and_created_time(values, forecast_horizon, now)
    /\ UNCHANGED <<now, window, values, internal_minutes, rows, sites_vars,
                   forecast_horizon, request_vars>>

NextCsv == CallFormatCsv

SpecCsv == InitCsv /\ [][NextCsv]_vars

\* the input points whose Time is the Time of a row left after the filter
KeptValues ==
    {i \in DOMAIN values :
        \E k \in DOMAIN frame : timestamp(frame[k]["Time"]) = timestamp(values[i].Time)}

\* C15: the created time returned is the latest CreatedTime among the rows
\* left after the horizon filter.
C15_CreatedTimeOfKeptRows ==
    (result.status = "ok" /\ KeptValues # {}) =>
        result.created_time =
            Timestamp(set_max({timestamp(values[i].CreatedTime) : i \in KeptValues}))

\* a filtered-out value was created later than every value left
C15_Witness ==
    /\ result.status = "ok"
    /\ KeptValues # {}
    /\ \E i \in DOMAIN values :
          /\ i \notin KeptValues
          /\ timestamp(values[i].CreatedTime) > result.created_time.value

\* the Asia/Kolkata calendar day of an instant
local_day(t) == (t + local_tz) \div MinutesPerDay

\* the input points the horizon keeps: from now on for latest, of the local
\* date of now plus one day for day_ahead
InHorizon ==
    {i \in DOMAIN values :
        IF forecast_horizon = "latest" THEN timestamp(values[i].Time) >= now
        ELSE local_day(timestamp(values[i].Time)) = local_day(now) + 1}

hh_mm(m) ==
    <<Digits[(m \div 600) + 1], Digits[((m \div 60) % 10) + 1], ":",
      Digits[((m % 60) \div 10) + 1], Digits[(m % 10) + 1]>>

\* the Asia/Kolkata minute of the day of an instant
local_minute(t) == (t + local_tz) % MinutesPerDay

C19_HorizonFilterIdempotent ==
    (result.status = "ok" /\ forecast_horizon \in {"latest", "day_ahead"}) =>
        horizon_filter(frame, forecast_horizon, now) = frame

\* latest dropped a value and kept another
C19_Witness ==
    /\ result.status = "ok"
    /\ forecast_horizon = "latest"
    /\ frame # <<>>
    /\ Len(frame) < Len(values)

-----------------------------------------------------------------------------
(* SpecForecast: the region forecast with the latest horizon, through the  *)
(* adapter, the forecast route and the CSV route                           *)

\* PredictedPower.to_timezone(tz): Time and CreatedTime on the clock of tz
PredictedPower_to_timezone(y, tz) ==
    [y EXCEPT !.Time = astimezone(y.Time, tz),
              !.CreatedTime = astimezone(y.CreatedTime, tz)]

\* get_forecast_timeseries_route(source, region, forecast_horizon=latest,
\* smooth_flag) at the instant t: the values of the response
get_forecast_timeseries_route(db_rows, t, smooth_flag) ==
    LET vals == get_predicted_power_production_for_location(db_rows, t, smooth_flag)
    IN  [i \in DOMAIN vals |-> PredictedPower_to_timezone(vals[i], local_tz)]

\* the series a route returned
RouteReturned(route, s) == [status |-> "ok", series |-> s, route |-> route]

\* get_forecast_csv(source, region, forecast_horizon=latest) at the instant
\* t: the report that is streamed, or the exception that ends the call;
\* df["Date [IST]"].iloc[0] raises on a report without rows
get_forecast_csv(db_rows, t) ==
    LET forecasts == get_forecast_timeseries_route(db_rows, t, FALSE)
        formatted == format_csv_and_created_time(forecasts, "latest", t)
    IN  IF formatted.status = "error" THEN formatted
        ELSE IF formatted.series = <<>> THEN Raised("IndexError")
        ELSE [formatted EXCEPT !.status = "ok"] @@
             [route |-> "forecast/csv",
              tomorrow_ist |-> formatted.series[1]["Date [IST]"]]

InitForecast ==
    /\ rows \in RawRows
    /\ now \in PipelineNows
    /\ values = <<>> /\ internal_minutes = 0 /\ result = NoResult
    /\ WindowIdle /\ SitesIdle /\ CallIdle

\* db.get_predicted_*_power_production_for_location(location,
\* forecast_horizon=latest, smooth_flag)
ReadLatestForecast ==
    \E smooth_flag \in BOOLEAN :
        /\ result = NoResult
        /\ forecast_horizon' = "latest"
        /\ result' = RouteReturned("adapter",
                         get_predicted_power_production_for_location(rows, now, smooth_flag))
        /\ UNCHANGED <<now, window, values, internal_minutes, rows, sites_vars, frame, request_vars>>

\* GET /{source}/{region}/forecast?forecast_horizon=latest
GetForecastTimeseries ==
    \E smooth_flag \in BOOLEAN :
        /\ result = NoResult
        /\ forecast_horizon' = "latest"
        /\ result' = RouteReturned("forecast",
                         get_forecast_timeseries_route(rows, now, smooth_flag))
        /\ UNCHANGED <<now, window, values, internal_minutes, rows, sites_vars, frame, request_vars>>

\* GET /{source}/{region}/forecast/csv
GetForecastCsv ==
    /\ result = NoResult
    /\ forecast_horizon' = "latest"
    /\ result' = get_forecast_csv(rows, now)
    /\ UNCHANGED <<now, window, values, internal_minutes, rows, sites_vars, frame, request_vars>>

\* db.get_site_forecast(site_uuid, email), access granted
GetSiteForecast ==
    /\ result = NoResult
    /\ result' = RouteReturned("site", site_forecast_values(rows, now))
    /\ UNCHANGED <<now, window, values, internal_minutes, rows, sites_vars, call_vars, request_vars>>

NextForecast ==
    \/ ReadLatestForecast
    \/ GetForecastTimeseries
    \/ GetForecastCsv
    \/ GetSiteForecast

SpecForecast == InitForecast /\ [][NextForecast]_vars

\* the instants of the Time of the points of a returned forecast series
ForecastTimes ==
    IF result.status # "ok" THEN {}
    ELSE IF result.route = "adapter"
         THEN {result.series[k].Time : k \in DOMAIN result.series}
         ELSE IF result.route = "forecast"
              THEN {timestamp(result.series[k].Time) : k \in DOMAIN result.series}
              ELSE {}

\* C18 as stated: with the horizon latest, the adapter and the forecast
\* route return only points whose Time is at or after now.
C18_LatestFromNow == \A t \in ForecastTimes : t >= now

\* C18 as the code has it: with the horizon latest, the adapter and the
\* forecast route return only points whose Time is at or after the start of
\* the window, 00:00 Asia/Kolkata two days before the local day of now.
C18_LatestFromWindowStart ==
    \A t \in ForecastTimes :
        t >= (local_day(now) - 2) * MinutesPerDay - local_tz

\* the forecast route returned a point of before now and the datastore holds
\* a row of before the window
C18_Witness ==
    /\ result.status = "ok"
    /\ result.route = "forecast"
    /\ \E t \in ForecastTimes : t < now
    /\ \E i \in DOMAIN rows : rows[i].start_utc < get_window(now).start

\* C20: none of the region forecast, the forecast route, the CSV route and
\* the site forecast ends with an error, whether or not there are forecast
\* values in the window or from now on.
C20_EmptyIsNoError == result.status # "error"

-----------------------------------------------------------------------------
(* SpecResampleWidth: resample_generation with any bucket width *)

\* the errors pandas raises for a resample frequency that is not positive:
\* the bin edges are taken modulo the width (width 0), and no bin of a
\* negative width holds the first value
FrequencyErrors == {"ZeroDivisionError", "ValueError"}

\* one call of resample_generation(values, internal_minutes): the empty list
\* is returned at once, before the width is looked at; otherwise
\* resample(f"{internal_minutes}T") raises for a width of 0 or less
resample_generation_outcome(vals, minutes, exception) ==
    IF vals = <<>> THEN Returned(<<>>)
    ELSE IF minutes <= 0 THEN Raised(exception)
    ELSE Returned(resample_generation(vals, minutes))

AnyWidths == {-15, 0, 15}

InitResampleWidth ==
    /\ values \in ResampleInputs
    /\ internal_minutes \in AnyWidths
    /\ result = NoResult
    /\ now = 0
    /\ WindowIdle /\ RowsIdle /\ SitesIdle /\ CallIdle

CallResampleGenerationAnyWidth ==
    /\ result = NoResult
    /\ \E exception \in FrequencyErrors :
           result' = resample_generation_outcome(values, internal_minutes,
                                                 exception)
    /\ UNCHANGED <<now, window, values, internal_minutes, rows, sites_vars, call_vars, request_vars>>

NextResampleWidth == CallResampleGenerationAnyWidth

SpecResampleWidth == InitResampleWidth /\ [][NextResampleWidth]_vars

\* C21: whatever the input series, the empty one included, a call of
\* resample_generation with a bucket width of 0 or less ends with an error
\* and returns no series.
C21_NonPositiveWidthFails ==
    (result # NoResult /\ internal_minutes <= 0) => result.status = "error"

-----------------------------------------------------------------------------
(* SpecRoutes: the region routes and the adapter reads with every argument *)
(* of the caller, and an adapter that can fail                             *)

\* an argument the caller leaves out (Optional[int] = None)
None == -1

\* forecast_horizon_minutes handed to the query whatever the horizon: a mutant
forecast_query_keeps_minutes(t, horizon, horizon_minutes) ==
    [start_utc |-> get_window(t).start,
     day_ahead_hours |-> IF horizon = "day_ahead" THEN 9 ELSE None,
     day_ahead_timezone_delta_minutes |->
         IF horizon = "day_ahead" THEN local_tz ELSE None,
     forecast_horizon_minutes |-> horizon_minutes]

\* lines 75-89 of Client.get_predicted_power_production_for_location: the
\* arguments of the forecast query at the instant t. forecast_horizon_minutes
\* is kept for the horizon 'horizon' only
forecast_query(t, horizon, horizon_minutes) ==
    [start_utc |-> get_window(t).start,
     day_ahead_hours |-> IF horizon = "day_ahead" THEN 9 ELSE None,
     day_ahead_timezone_delta_minutes |->
         IF horizon = "day_ahead" THEN local_tz ELSE None,
     forecast_horizon_minutes |->
         IF horizon = "horizon" THEN horizon_minutes ELSE None]

\* get_latest_forecast_values_by_site(session, site_uuids, start_utc,
\* day_ahead_hours, day_ahead_timezone_delta_hours, forecast_horizon_minutes,
\* model_name): the rows from start_utc on; with day_ahead_hours, those created
\* by that hour of the local day before their own; with
\* forecast_horizon_minutes, those created at least that long before their
\* start_utc
get_latest_forecast_values(db_rows, query) ==
    LET delta == query.day_ahead_timezone_delta_minutes
        day_ahead(r) ==
            r.created_utc + delta <=
                (((r.start_utc + delta) \div MinutesPerDay) - 1) * MinutesPerDay
                + query.day_ahead_hours * MinutesPerHour
        keep(r) ==
            /\ r.start_utc >= query.start_utc
            /\ query.day_ahead_hours # None => day_ahead(r)
            /\ query.forecast_horizon_minutes # None =>
                   r.start_utc - r.created_utc >= query.forecast_horizon_minutes
    IN  SelectSeq(db_rows, keep)

\* Client.get_predicted_solar_power_production_for_location(location,
\* forecast_horizon, forecast_horizon_minutes, smooth_flag) at the instant t
get_predicted_solar_power_production_for_location(db_rows, t, horizon, horizon_minutes, smooth_flag) ==
    LET query == forecast_query(t, horizon, horizon_minutes)
        vals == to_predicted_power(get_latest_forecast_values(db_rows, query))
    IN  IF smooth_flag THEN smooth_forecast(vals) ELSE vals

\* smooth_flag as the caller passed it, whatever the horizon: a mutant
route_smooth_flag_of_caller(horizon, smooth_flag) == smooth_flag

\* lines 155-156 of get_forecast_timeseries_route: smooth_flag handed to the
\* adapter
route_smooth_flag(horizon, smooth_flag) ==
    IF horizon = "day_ahead" THEN FALSE ELSE smooth_flag

\* what the adapter can raise while a route fetches its series: nothing, the
\* HTTPException 204 of a location without a site, an error of the datastore
AdapterFailures == {"none", "HTTPException_204", "OperationalError"}

\* the response FastAPI makes of an HTTPException
HTTPException(route, status_code, failure) ==
    [status |-> "error", series |-> <<>>, route |-> route,
     status_code |-> status_code, failure |-> failure]

\* the adapter's exception left uncaught: an HTTPException keeps its own
\* status code. A mutant
reraise_adapter_failure(route, failure) ==
    HTTPException(route, IF failure = "HTTPException_204" THEN 204 ELSE 500,
                  failure)

\* except Exception as e: raise HTTPException(status_code=500, ...) from e
wrap_adapter_failure(route, failure) == HTTPException(route, 500, failure)

\* the 200 response of a route with its series
OkResponse(route, s) ==
    [status |-> "ok", series |-> s, route |-> route, status_code |-> 200,
     failure |-> "none"]

\* the response of GET /{source}/{region}/forecast at the instant t
get_forecast_timeseries_response(db_rows, t, horizon, horizon_minutes, smooth_flag, failure) ==
    LET flag == route_smooth_flag(horizon, smooth_flag)
        vals == get_predicted_solar_power_production_for_location(
                    db_rows, t, horizon, horizon_minutes, flag)
    IN  IF failure # "none" THEN wrap_adapter_failure("forecast", failure)
        ELSE OkResponse("forecast",
                 [i \in DOMAIN vals |-> PredictedPower_to_timezone(vals[i], local_tz)])
             @@ [query |-> forecast_query(t, horizon, horizon_minutes),
                 smooth_flag |-> flag]

\* the response of GET /{source}/{region}/generation at the instant t
get_historic_timeseries_response(db_rows, t, resample_minutes, failure) ==
    IF failure # "none" THEN wrap_adapter_failure("generation", failure)
    ELSE OkResponse("generation",
                    get_historic_timeseries_route(db_rows, t, resample_minutes))

\* the response of GET /{source}/{region}/forecast/csv at the instant t, for
\* the horizons the route accepts: the forecast route is called with
\* smooth_flag=False and without forecast_horizon_minutes
get_forecast_csv_response(db_rows, t, horizon, failure) ==
    LET forecasts == get_forecast_timeseries_response(
                         db_rows, t, horizon, None, FALSE, failure)
        formatted == format_csv_and_created_time(forecasts.series, horizon, t)
    IN  IF forecasts.status = "error"
        THEN [forecasts EXCEPT !.route = "forecast/csv"]
        ELSE IF formatted.status = "error"
             THEN formatted @@ [route |-> "forecast/csv", failure |-> "none"]
        ELSE IF formatted.series = <<>>
             THEN Raised("IndexError")
                  @@ [route |-> "forecast/csv", failure |-> "none"]
        ELSE [formatted EXCEPT !.status = "ok"] @@
             [route |-> "forecast/csv", status_code |-> 200,
              failure |-> "none", query |-> forecasts.query,
              smooth_flag |-> forecasts.smooth_flag]

MaxRouteRows == 2

\* raw power of a forecast or generation row: -2.5 and 4 kW
RoutePowers == {Rat(-5, 2), float(4)}

\* how long before its start_utc a row was created: half an hour, two days
RouteLeads == {2 * ForecastStep, 2 * MinutesPerDay}

\* the rows of one site as the queries return them: start_utc ascending, one
\* row per start_utc
RouteRows ==
    UNION { { [i \in 1..Cardinality(T) |->
                 [start_utc |-> sorted(T)[i], power_kw |-> ps[i],
                  created_utc |-> sorted(T)[i] - leads[i]]]
              : ps \in [1..Cardinality(T) -> RoutePowers],
                leads \in [1..Cardinality(T) -> RouteLeads] }
            : T \in {X \in SUBSET RowTimes : Cardinality(X) <= MaxRouteRows} }

\* forecast_horizon_minutes of the caller: left out, or one hour
HorizonMinutes == {None, MinutesPerHour}

InitRoutes ==
    /\ rows \in RouteRows
    /\ now \in PipelineNows
    /\ values = <<>> /\ internal_minutes = 0 /\ result = NoResult
    /\ WindowIdle /\ SitesIdle /\ CallIdle

\* GET /{source}/{region}/forecast?forecast_horizon=...
\*     &forecast_horizon_minutes=...&smooth_flag=...
GetForecastTimeseriesRoute ==
    \E horizon \in ForecastHorizon, horizon_minutes \in HorizonMinutes,
       smooth_flag \in BOOLEAN, failure \in AdapterFailures :
        /\ result = NoResult
        /\ forecast_horizon' = horizon
        /\ result' = get_forecast_timeseries_response(
                         rows, now, horizon, horizon_minutes, smooth_flag, failure)
                     @@ [args |-> [forecast_horizon_minutes |-> horizon_minutes,
                                   smooth_flag |-> smooth_flag]]
        /\ UNCHANGED <<now, window, values, internal_minutes, rows, sites_vars, frame, request_vars>>

\* GET /{source}/{region}/generation?resample_minutes=...
GetHistoricTimeseriesRoute ==
    \E resample_minutes \in Widths \cup {NoResample},
       failure \in AdapterFailures :
        /\ result = NoResult
        /\ internal_minutes' = resample_minutes
        /\ result' = get_historic_timeseries_response(
                         rows, now, resample_minutes, failure)
        /\ UNCHANGED <<now, window, values, rows, sites_vars, call_vars, request_vars>>

\* GET /{source}/{region}/forecast/csv?forecast_horizon=...
GetForecastCsvRoute ==
    \E horizon \in {"latest", "day_ahead"}, failure \in AdapterFailures :
        /\ result = NoResult
        /\ forecast_horizon' = horizon
        /\ result' = get_forecast_csv_response(rows, now, horizon, failure)
        /\ UNCHANGED <<now, window, values, internal_minutes, rows, sites_vars, frame, request_vars>>

\* db.get_predicted_solar_power_production_for_location(location,
\* forecast_horizon, forecast_horizon_minutes, smooth_flag)
ReadPredictedPower ==
    \E horizon \in ForecastHorizon, horizon_minutes \in HorizonMinutes,
       smooth_flag \in BOOLEAN :
        /\ result = NoResult
        /\ forecast_horizon' = horizon
        /\ result' = OkResponse("adapter_forecast",
                         get_predicted_solar_power_production_for_location(
                             rows, now, horizon, horizon_minutes, smooth_flag))
                     @@ [query |-> forecast_query(now, horizon, horizon_minutes),
                         smooth_flag |-> smooth_flag,
                         args |-> [forecast_horizon_minutes |-> horizon_minutes,
                                   smooth_flag |-> smooth_flag]]
        /\ UNCHANGED <<now, window, values, internal_minutes, rows, sites_vars, frame, request_vars>>

\* db.get_actual_solar_power_production_for_location(location)
ReadActualPower ==
    /\ result = NoResult
    /\ result' = OkResponse("adapter_generation",
                            get_generation_for_location(rows, now))
    /\ UNCHANGED <<now, window, values, internal_minutes, rows, sites_vars, call_vars, request_vars>>

\* db.get_site_forecast(site_uuid, email), access granted
ReadSiteForecastValues ==
    /\ result = NoResult
    /\ result' = OkResponse("site_forecast", site_forecast_values(rows, now))
    /\ UNCHANGED <<now, window, values, internal_minutes, rows, sites_vars, call_vars, request_vars>>

\* db.get_site_generation(site_uuid, email), access granted
ReadSiteGenerationValues ==
    /\ result = NoResult
    /\ result' = OkResponse("site_generation", site_generation_values(rows, now))
    /\ UNCHANGED <<now, window, values, internal_minutes, rows, sites_vars, call_vars, request_vars>>

NextRoutes ==
    \/ GetForecastTimeseriesRoute
    \/ GetHistoricTimeseriesRoute
    \/ GetForecastCsvRoute
    \/ ReadPredictedPower
    \/ ReadActualPower
    \/ ReadSiteForecastValues
    \/ ReadSiteGenerationValues

SpecRoutes == InitRoutes /\ [][NextRoutes]_vars

\* C22: whenever the adapter raises while the region generation route or the
\* region forecast route fetches its series, the response is an HTTP 500 and
\* carries no series.
C22_AdapterFailureIs500 ==
    (result # NoResult /\ result.route \in {"generation", "forecast"}
        /\ result.failure # "none")
    => (result.status = "error" /\ result.status_code = 500
        /\ result.series = <<>>)

\* the forecast route answered 500 for a location without a site, although
\* the datastore holds rows of the window
C22_Witness ==
    /\ result # NoResult
    /\ result.route = "forecast"
    /\ result.failure = "HTTPException_204"
    /\ result.status_code = 500
    /\ \E i \in DOMAIN rows : rows[i].start_utc >= get_window(now).start

\* the values of the rows the query of the returned response selects, as the
\* adapter converts them, before any smoothing
unsmoothed_values ==
    to_predicted_power(get_latest_forecast_values(rows, result.query))

\* C24: for forecast_horizon = day_ahead the region forecast route returns
\* the unsmoothed values whatever smooth_flag the caller passed, and the CSV
\* route asks the adapter for unsmoothed values.
C24_DayAheadNeverSmoothed ==
    /\ (result.status = "ok" /\ result.route = "forecast"
            /\ forecast_horizon = "day_ahead")
       => /\ result.smooth_flag = FALSE
          /\ result.series =
                 [i \in DOMAIN unsmoothed_values |->
                     PredictedPower_to_timezone(unsmoothed_values[i], local_tz)]
    /\ (result.status = "ok" /\ result.route = "forecast/csv")
       => result.smooth_flag = FALSE

\* the caller asked the forecast route for a smoothed day-ahead forecast and
\* smoothing would have changed the values that were returned
C24_Witness ==
    /\ result.status = "ok"
    /\ result.route = "forecast"
    /\ forecast_horizon = "day_ahead"
    /\ result.args.smooth_flag = TRUE
    /\ smooth_forecast(unsmoothed_values) # unsmoothed_values

\* C27: forecast_horizon_minutes reaches the query only when forecast_horizon
\* is 'horizon': for latest and day_ahead the query carries no
\* forecast_horizon_minutes and the series is the one of a call without it;
\* with 'horizon' and no forecast_horizon_minutes the call does not fail.
C27_MinutesOnlyForHorizon ==
    (result.status # "none" /\ result.route \in {"forecast", "adapter_forecast"}
        /\ result.failure = "none")
    => /\ result.status = "ok"
       /\ forecast_horizon \in {"latest", "day_ahead"}
          => /\ result.query.forecast_horizon_minutes = None
             /\ result.query = forecast_query(now, forecast_horizon, None)
             /\ result.series =
                    (IF result.route = "forecast"
                     THEN get_forecast_timeseries_response(
                              rows, now, forecast_horizon, None,
                              result.args.smooth_flag, "none").series
                     ELSE get_predicted_solar_power_production_for_location(
                              rows, now, forecast_horizon, None,
                              result.args.smooth_flag))
       /\ (forecast_horizon = "horizon"
              /\ result.args.forecast_horizon_minutes # None)
          => result.query.forecast_horizon_minutes =
                 result.args.forecast_horizon_minutes

\* the caller passed forecast_horizon_minutes with the horizon latest, and a
\* row of the window was created less than that long before its start_utc:
\* the horizon 'horizon' would have left it out
C27_Witness ==
    /\ result.status = "ok"
    /\ result.route = "forecast"
    /\ forecast_horizon = "latest"
    /\ result.args.forecast_horizon_minutes = MinutesPerHour
    /\ result.series # <<>>
    /\ get_latest_forecast_values(rows,
           forecast_query(now, "horizon", MinutesPerHour))
       # get_latest_forecast_values(rows, result.query)

\* C28: the response of the region generation route holds no point whose Time
\* is at or after now, with or without resampling.
C28_GenerationBeforeNow ==
    (result.status = "ok" /\ result.route = "generation")
    => \A k \in DOMAIN result.series : timestamp(result.series[k].Time) < now

\* the generation route resampled, returned a point, and left out a row of
\* the window that is not before now
C28_Witness ==
    /\ result.status = "ok"
    /\ result.route = "generation"
    /\ internal_minutes # NoResample
    /\ result.series # <<>>
    /\ \E i \in DOMAIN rows :
           /\ rows[i].start_utc >= now
           /\ rows[i].start_utc < get_window(now).end

\* C30: every point an adapter read returns, forecast reads as well as
\* generation reads, has its Time inside [start, end) of get_window.
C30_ReadsInsideWindow ==
    (result.status = "ok"
        /\ result.route \in {"adapter_forecast", "site_forecast",
                             "adapter_generation", "site_generation"})
    => \A k \in DOMAIN result.series :
           /\ result.series[k].Time >= get_window(now).start
           /\ result.series[k].Time < get_window(now).end

\* C30 as the code has it: every point a generation read returns has its
\* Time inside [start, end) of get_window; every point a forecast read
\* returns has its Time at or after start, with no bound at the window end.
C30_GenerationInsideForecastFromStart ==
    (result.status = "ok"
        /\ result.route \in {"adapter_forecast", "site_forecast",
                             "adapter_generation", "site_generation"})
    => \A k \in DOMAIN result.series :
           /\ result.series[k].Time >= get_window(now).start
           /\ result.route \in {"adapter_generation", "site_generation"}
              => result.series[k].Time < get_window(now).end

\* a generation read returned a point although the datastore holds a row at
\* or after the window end, which it left out
C30_Witness ==
    /\ result.status = "ok"
    /\ result.route \in {"adapter_generation", "site_generation"}
    /\ result.series # <<>>
    /\ \E i \in DOMAIN rows : rows[i].start_utc >= get_window(now).end

-----------------------------------------------------------------------------
(* The access decision across two calls of the default specification *)

\* C23: when a sites-scoped call follows another call of the same user for
\* the same site, its outcome follows the membership at the time of the
\* second call: a user granted before and not a member now is refused with
\* 403, a user refused before and a member now is not refused.
C23_AccessNotCached ==
    [][ (SitesCall /\ response.op # "none"
            /\ response'.op \in {"get_site_forecast", "get_site_generation",
                                 "post_site_generation"}
            /\ response'.email = response.email
            /\ response'.site_uuid = response.site_uuid)
          => /\ (response.status_code # 403 /\ ~Owned(response'))
                => response'.status_code = 403
             /\ (response.status_code = 403 /\ Owned(response'))
                => response'.status_code # 403 ]_vars

\* test@test.com, whose group owned site_1 at the start and posted a reading
\* for it, is refused site_1 after the site left the group
C23_Witness ==
    /\ response.op = "get_site_generation"
    /\ response.email = "test@test.com"
    /\ response.site_uuid = "site_1"
    /\ response.status_code = 403
    /\ "site_1" \notin site_group_sites["group_test"]
    /\ \E row \in generation : row.site_uuid = "site_1"

-----------------------------------------------------------------------------
(* SpecTiming: validate_forecast_timing while the clock advances *)

\* d.replace(hour=9, minute=0, second=0, microsecond=0)
replace_hour_9(d) == [d EXCEPT !.hour = 9, !.minute = 0]

\* true from the cutoff on, the cutoff itself included: a mutant
validate_forecast_timing_from_cutoff(forecast_date, t) ==
    LET forecast_ist == astimezone(timestamp(forecast_date), local_tz)
        current_time == astimezone(t, local_tz)
        cutoff_day == plus_days(forecast_ist, -1)
        cutoff_time == replace_hour_9(cutoff_day)
    IN  timestamp(current_time) >= timestamp(cutoff_time)

\* validate_forecast_timing(forecast_date) at the current instant t
validate_forecast_timing(forecast_date, t) ==
    LET forecast_ist == astimezone(timestamp(forecast_date), local_tz)
        current_time == astimezone(t, local_tz)
        cutoff_day == plus_days(forecast_ist, -1)
        cutoff_time == replace_hour_9(cutoff_day)
    IN  timestamp(current_time) > timestamp(cutoff_time)

\* target dates: 00:00 and 20:00 of the days 1 and 2, on the UTC clock and on
\* the Asia/Kolkata clock (20:00 UTC is 01:30 Asia/Kolkata of the next day)
ForecastDates ==
    {[day |-> d, hour |-> h, minute |-> 0, tz |-> tz] :
        d \in {1, 2}, h \in {0, 20}, tz \in {UTC, local_tz}}

\* the outcome of one call, with the target date and the instant of the call
Validated(forecast_date, t) ==
    [status |-> "ok", series |-> <<>>, forecast_date |-> forecast_date,
     at |-> t, valid |-> validate_forecast_timing(forecast_date, t)]

InitTiming ==
    /\ now = 0
    /\ values = <<>> /\ internal_minutes = 0 /\ result = NoResult
    /\ WindowIdle /\ RowsIdle /\ SitesIdle /\ CallIdle

\* the clock advances
Tick ==
    /\ now < MaxTicks * NowGrid
    /\ now' = now + NowGrid
    /\ UNCHANGED <<window, rows, series_vars, sites_vars, request_vars>>

CallValidateForecastTiming ==
    \E forecast_date \in ForecastDates :
        /\ result' = Validated(forecast_date, now)
        /\ UNCHANGED <<now, window, values, internal_minutes, rows, sites_vars, call_vars, request_vars>>

NextTiming == Tick \/ CallValidateForecastTiming

SpecTiming == InitTiming /\ [][NextTiming]_vars

\* the instant of 09:00 Asia/Kolkata of the day before the Asia/Kolkata day
\* of the target date
cutoff_of(forecast_date) ==
    (local_day(timestamp(forecast_date)) - 1) * MinutesPerDay
    + 9 * MinutesPerHour - local_tz

\* C25: validate_forecast_timing(forecast_date) is true exactly when the
\* instant of the call is strictly after 09:00 Asia/Kolkata of the day before
\* the target date, and once it was true for a target date it is true at
\* every later call for the same target date.
C25_ValidAfterCutoff ==
    [][ result'.status = "ok"
          => /\ result'.valid <=> result'.at > cutoff_of(result'.forecast_date)
             /\ (result.status = "ok" /\ result.valid
                    /\ result'.forecast_date = result.forecast_date)
                => result'.valid ]_vars

\* a call at the very cutoff of a target date given on the UTC clock, whose
\* Asia/Kolkata day is the next one, was answered false
C25_Witness ==
    /\ result.status = "ok"
    /\ result.forecast_date.tz = UTC
    /\ result.forecast_date.hour = 20
    /\ result.at = cutoff_of(result.forecast_date)
    /\ ~result.valid
    /\ now > result.at

-----------------------------------------------------------------------------
(* SpecMiddleware: save_api_request_to_db around the route handlers *)

MaxRequests == 2

\* email of a request that carries no valid token
NoEmail == "None"

CsvPath == "/solar/ruvnl/forecast/csv"
GenerationPath == "/solar/ruvnl/generation"

\* the requests of the model: a preflight or a GET of the CSV route or of the
\* generation route, without or with a query string, with or without a token
HttpRequests ==
    [method : {"GET", "OPTIONS"},
     path : {CsvPath, GenerationPath},
     query : {"", "forecast_horizon=day_ahead", "resample_minutes=15"},
     email : {NoEmail, "test@test.com"}]

\* the datastore of the model: no forecast or generation row, or one row at
\* 00:00 Asia/Kolkata of day 4
MiddlewareRows ==
    {<<>>,
     <<[start_utc |-> 4 * MinutesPerDay - local_tz, power_kw |-> float(4),
        created_utc |-> 2 * MinutesPerDay - local_tz]>>}

\* await call_next(request): the response of the application, or the
\* exception a route handler did not catch. A preflight is answered by
\* CORSMiddleware, a request without a valid token by the 401 of Auth
call_next(request, db_rows, t) ==
    IF request.method = "OPTIONS" THEN [raised |-> FALSE, status_code |-> 200]
    ELSE IF request.email = NoEmail THEN [raised |-> FALSE, status_code |-> 401]
    ELSE LET handled ==
                 IF request.path = CsvPath
                 THEN get_forecast_csv_response(
                          db_rows, t,
                          IF request.query = "forecast_horizon=day_ahead"
                          THEN "day_ahead" ELSE "latest",
                          "none")
                 ELSE get_historic_timeseries_response(
                          db_rows, t,
                          IF request.query = "resample_minutes=15"
                          THEN 15 ELSE NoResample,
                          "none")
         IN  IF "exception" \in DOMAIN handled
             THEN [raised |-> TRUE, exception |-> handled.exception]
             ELSE [raised |-> FALSE, status_code |-> handled.status_code]

\* call_next for every request, datastore and instant of the model, computed
\* once
application ==
    [request \in HttpRequests, db_rows \in MiddlewareRows, t \in PipelineNows |->
        call_next(request, db_rows, t)]

\* url_and_query = f"{url}?{params}"
url_and_query(request) == <<request.path, "?", request.query>>

\* save_api_request_to_db(request, call_next), answered being what
\* 'await call_next(request)' gives: what the client receives, the calls made
\* in order, and the recorded API calls afterwards. An exception of call_next
\* ends the middleware at its first line
save_api_request_to_db(request, answered, recorded) ==
    IF answered.raised
    THEN [request |-> request, status_code |-> 500,
          events |-> <<"call_next">>, api_requests |-> recorded]
    ELSE IF request.method = "OPTIONS"
    THEN [request |-> request, status_code |-> answered.status_code,
          events |-> <<"call_next">>, api_requests |-> recorded]
    ELSE [request |-> request, status_code |-> answered.status_code,
          events |-> <<"call_next", "save_api_call_to_db">>,
          api_requests |->
              Append(recorded, [url |-> url_and_query(request),
                                email |-> request.email])]

InitMiddleware ==
    /\ rows \in MiddlewareRows
    /\ now \in PipelineNows
    /\ api_requests = <<>> /\ requests = <<>>
    /\ values = <<>> /\ internal_minutes = 0 /\ result = NoResult
    /\ frame = <<>> /\ forecast_horizon = NoHorizon
    /\ WindowIdle /\ SitesIdle

HandleRequest ==
    \E request \in HttpRequests :
        \E handled \in {save_api_request_to_db(
                             request, application[request, rows, now],
                             api_requests)} :
            /\ Len(requests) < MaxRequests
            /\ requests' = Append(requests,
                               [request |-> handled.request,
                                status_code |-> handled.status_code,
                                events |-> handled.events])
            /\ api_requests' = handled.api_requests
            /\ UNCHANGED <<now, window, values, internal_minutes, result, rows,
                           sites_vars, frame, forecast_horizon>>

NextMiddleware == HandleRequest

SpecMiddleware == InitMiddleware /\ [][NextMiddleware]_vars

\* the requests handled so far whose method is not OPTIONS, in order
recorded_requests ==
    LET not_options(r) == r.request.method # "OPTIONS"
    IN  SelectSeq(requests, not_options)

\* C29: every request whose method is not OPTIONS is recorded by exactly one
\* save_api_call_to_db call, made after the handler answered, with the path
\* and the query string of the request and the email of its caller; no
\* OPTIONS request is recorded.
C29_EveryRequestRecordedOnce ==
    /\ api_requests =
           [k \in DOMAIN recorded_requests |->
               [url |-> <<recorded_requests[k].request.path, "?",
                          recorded_requests[k].request.query>>,
                email |-> recorded_requests[k].request.email]]
    /\ \A k \in DOMAIN requests :
           requests[k].events =
               IF requests[k].request.method = "OPTIONS"
               THEN <<"call_next">>
               ELSE <<"call_next", "save_api_call_to_db">>

-----------------------------------------------------------------------------
(* SpecConcurrent: two requests handled at the same time, each by its own  *)
(* Client and its own call of the route function                           *)

RequestIds == {1, 2}

\* the calls of the model: the forecast route (latest smoothed, latest not
\* smoothed, day ahead), the generation route (as stored, resampled to 15
\* minutes) and the CSV route
ConcurrentCalls ==
    {[route |-> "forecast", forecast_horizon |-> "latest",
      smooth_flag |-> TRUE, resample_minutes |-> NoResample],
     [route |-> "forecast", forecast_horizon |-> "latest",
      smooth_flag |-> FALSE, resample_minutes |-> NoResample],
     [route |-> "forecast", forecast_horizon |-> "day_ahead",
      smooth_flag |-> TRUE, resample_minutes |-> NoResample],
     [route |-> "generation", forecast_horizon |-> NoHorizon,
      smooth_flag |-> FALSE, resample_minutes |-> NoResample],
     [route |-> "generation", forecast_horizon |-> NoHorizon,
      smooth_flag |-> FALSE, resample_minutes |-> ForecastStep],
     [route |-> "forecast/csv", forecast_horizon |-> "latest",
      smooth_flag |-> FALSE, resample_minutes |-> NoResample]}

\* datastores of two rows of different power, created two days ahead
ConcurrentRows ==
    {r \in RouteRows :
        /\ Len(r) = 2
        /\ r[1].power_kw # r[2].power_kw
        /\ \A i \in DOMAIN r : r[i].start_utc - r[i].created_utc = 2 * MinutesPerDay}

\* a request the server has not received yet
NoRequest == [pc |-> "idle"]

\* the rows the adapter of a call reads and converts, before any smoothing:
\* the local 'values' of the adapter method
fetch(call, db_rows, t) ==
    IF call.route = "generation"
    THEN get_generation_for_location(db_rows, t)
    ELSE to_predicted_power(
             get_latest_forecast_values(
                 db_rows, forecast_query(t, call.forecast_horizon, None)))

\* what the call makes of the values it fetched: smoothing and the change of
\* time zone for the forecast route; resampling, the filter Time < now and
\* the change of time zone for the generation route; the report for the CSV
\* route
process(call, vals, t) ==
    IF call.route = "generation"
    THEN LET resampled == IF call.resample_minutes # NoResample
                          THEN resample_generation(vals, call.resample_minutes)
                          ELSE vals
             past(y) == y.Time < t
             kept == SelectSeq(resampled, past)
         IN  [i \in DOMAIN kept |-> to_timezone(kept[i], local_tz)]
    ELSE LET flag == IF call.route = "forecast/csv" THEN FALSE
                     ELSE route_smooth_flag(call.forecast_horizon, call.smooth_flag)
             smoothed == IF flag THEN smooth_forecast(vals) ELSE vals
             forecasts == [i \in DOMAIN smoothed |->
                              PredictedPower_to_timezone(smoothed[i], local_tz)]
         IN  IF call.route = "forecast" THEN forecasts
             ELSE format_csv_and_created_time(forecasts, call.forecast_horizon, t)

\* the values of whichever request fetched, one buffer for every request: a
\* mutant
fetched_values_shared(reqs, r) ==
    IF \E q \in RequestIds \ {r} : reqs[q].pc \in {"fetched", "done"}
    THEN reqs[CHOOSE q \in RequestIds \ {r} : reqs[q].pc \in {"fetched", "done"}].values
    ELSE reqs[r].values

\* the values request r fetched: a local of its own call
fetched_values(reqs, r) == reqs[r].values

\* another request is between its receipt and its response
in_flight(reqs, r) ==
    \E q \in RequestIds \ {r} : reqs[q].pc \in {"received", "fetched"}

InitConcurrent ==
    /\ rows \in ConcurrentRows
    /\ now \in PipelineNows
    /\ requests = [r \in RequestIds |-> NoRequest]
    /\ api_requests = <<>>
    /\ values = <<>> /\ internal_minutes = 0 /\ result = NoResult
    /\ frame = <<>> /\ forecast_horizon = NoHorizon
    /\ WindowIdle /\ SitesIdle

\* the server receives a request and builds the Client of that request
Receive ==
    \E r \in RequestIds, call \in ConcurrentCalls :
        /\ requests[r].pc = "idle"
        /\ requests' = [requests EXCEPT ![r] =
                           [pc |-> "received", call |-> call, values |-> <<>>,
                            series |-> <<>>, overlapped |-> FALSE]]
        /\ UNCHANGED <<now, window, values, internal_minutes, result, rows,
                       sites_vars, frame, forecast_horizon, api_requests>>

\* the adapter of a request reads the datastore through its own session
Fetch ==
    \E r \in RequestIds :
        /\ requests[r].pc = "received"
        /\ requests' = [requests EXCEPT
                           ![r].pc = "fetched",
                           ![r].values = fetch(requests[r].call, rows, now),
                           ![r].overlapped = @ \/ in_flight(requests, r)]
        /\ UNCHANGED <<now, window, values, internal_minutes, result, rows,
                       sites_vars, frame, forecast_horizon, api_requests>>

\* the request smooths, resamples, filters or formats what it fetched, and
\* answers
Process ==
    \E r \in RequestIds :
        /\ requests[r].pc = "fetched"
        /\ requests' = [requests EXCEPT
                           ![r].pc = "done",
                           ![r].series = process(requests[r].call,
                                                 fetched_values(requests, r), now),
                           ![r].overlapped = @ \/ in_flight(requests, r)]
        /\ UNCHANGED <<now, window, values, internal_minutes, result, rows,
                       sites_vars, frame, forecast_horizon, api_requests>>

NextConcurrent == Receive \/ Fetch \/ Process

SpecConcurrent == InitConcurrent /\ [][NextConcurrent]_vars

\* what a call returns when it is handled alone at the instant t
alone(call, db_rows, t) ==
    IF call.route = "generation"
    THEN get_historic_timeseries_route(db_rows, t, call.resample_minutes)
    ELSE IF call.route = "forecast"
    THEN get_forecast_timeseries_response(
             db_rows, t, call.forecast_horizon, None, call.smooth_flag,
             "none").series
    ELSE format_csv_and_created_time(
             get_forecast_timeseries_response(
                 db_rows, t, call.forecast_horizon, None, FALSE, "none").series,
             call.forecast_horizon, t)

=============================================================================
